---- MODULE Spec2Model ----
(***************************************************************************)
(* Model of generate_story_images.py: the batch orchestrator (main) and    *)
(* the story processor (process_story) with the three stores they touch:   *)
(* the dataset file (stories.json), the local image directory and the      *)
(* storage bucket.  One behaviour is a sequence of invocations of the      *)
(* script over the same file system.                                       *)
(***************************************************************************)
EXTENDS Integers, Sequences, FiniteSets, TLC

\* ---------------------------------------------------------------- bounds
\* Largest dataset (number of story records) the model starts from.
MaxStories == 11
\* Number of invocations of the script in one behaviour.
MaxRuns == 2
\* Number of external mishaps in one behaviour: a failed generation, a failed
\* upload, or the termination of the process from outside.
MaxFaults == 1
\* Largest dataset whose records still lack their images.
MaxFresh == 4

\* ------------------------------------------------------- program constants
\* 'Save progress every 5 stories' (success_count % 5 == 0).
SAVE_EVERY == 5
\* $0.04 per image, in cents.
UNIT_PRICE_CENTS == 4
\* argparse defaults of --start and --count.
DEFAULT_START == 0
DEFAULT_COUNT == 10
\* safe_title is cut to 50 characters.
SAFE_TITLE_CAP == 50
\* story_index is formatted with :03d.
INDEX_WIDTH == 3

\* ------------------------------------------------------------ python values
\* None, as a value of the type of URLs (a URL is a sequence of text pieces,
\* the empty string is the empty sequence).
None == <<"None">>
\* Python truthiness of an Optional[str].
Truthy(u) == u # None /\ u # <<>>

\* dict.get(k, default) and d[k] = v on a dict modelled as a function.
Get(d, k, default) == IF k \in DOMAIN d THEN d[k] ELSE default
Put(d, k, v) == [x \in (DOMAIN d) \cup {k} |-> IF x = k THEN v ELSE d[x]]

Min(a, b) == IF a < b THEN a ELSE b

\* Python list indexing: stories[k] is defined for -n <= k < n and a
\* negative k addresses position k + n.
ValidIndex(k, n) == -n <= k /\ k < n
Pos(k, n) == IF k < 0 THEN k + n ELSE k

\* list(range(a, b))
Range(a, b) == [k \in 1..(IF b > a THEN b - a ELSE 0) |-> a + k - 1]

\* ------------------------------------------------------------- file names
Alnum == {"A", "b", "c", "d", "1"}
KeptPunct == {" ", "-", "_"}

\* "".join(c for c in title if c.isalnum() or c in (' ', '-', '_'))
RECURSIVE KeepSafe(_)
KeepSafe(t) ==
  IF t = <<>> THEN <<>>
  ELSE IF Head(t) \in Alnum \cup KeptPunct
       THEN <<Head(t)>> \o KeepSafe(Tail(t))
       ELSE KeepSafe(Tail(t))

\* str.rstrip()
RECURSIVE RStrip(_)
RStrip(t) ==
  IF t # <<>> /\ t[Len(t)] = " " THEN RStrip(SubSeq(t, 1, Len(t) - 1)) ELSE t

\* str.replace(' ', '_')
SpacesToUnderscores(t) == [k \in 1..Len(t) |-> IF t[k] = " " THEN "_" ELSE t[k]]

SafeTitle(title) ==
  LET s == SpacesToUnderscores(RStrip(KeepSafe(title)))
  IN  SubSeq(s, 1, Min(Len(s), SAFE_TITLE_CAP))

DigitChar == <<"0", "1", "2", "3", "4", "5", "6", "7", "8", "9">>

RECURSIVE Digits(_)
Digits(m) ==
  IF m < 10 THEN <<DigitChar[m + 1]>>
  ELSE Digits(m \div 10) \o <<DigitChar[(m % 10) + 1]>>

RECURSIVE ZeroPad(_, _)
ZeroPad(ds, w) == IF Len(ds) >= w THEN ds ELSE ZeroPad(<<"0">> \o ds, w)

\* f"{story_index:03d}": the sign counts in the width.
Fmt03d(k) ==
  IF k >= 0 THEN ZeroPad(Digits(k), INDEX_WIDTH)
  ELSE <<"-">> \o ZeroPad(Digits(-k), INDEX_WIDTH - 1)

\* f"story_{story_index:03d}_{safe_title}.png"
LocalFilename(story_index, title) ==
  <<"story_">> \o Fmt03d(story_index) \o <<"_">> \o SafeTitle(title) \o <<".png">>

\* ------------------------------------------------------------------- URLs
FIREBASE_STORAGE_BUCKET == <<"arabicstories-82611.", "firebasestorage", ".app">>

\* 'firebasestorage' in existing_url
HasMarker(url) == \E k \in DOMAIN url : url[k] = "firebasestorage"

\* existing_url and 'firebasestorage' in existing_url
AlreadyHasFirebaseImage(story) ==
  LET existing_url == Get(story, "coverImageURL", <<>>)
  IN  Truthy(existing_url) /\ HasMarker(existing_url)

\* remote_path = f"story_covers/{local_filename}"
RemotePath(local_filename) == <<"story_covers/">> \o local_filename

\* blob.public_url of a blob of the configured bucket.
PublicURL(remote_path) ==
  <<"https://storage.googleapis.com/">> \o FIREBASE_STORAGE_BUCKET \o <<"/">>
    \o remote_path

\* ---------------------------------------------------------------- inputs
\* Titles of the catalogue, by position: they exercise the sanitiser
\* (stripped punctuation, trailing space, kept hyphen).
TitleOf(p) ==
  CASE p % 3 = 0 -> <<"A", " ", "b", "!">>
    [] p % 3 = 1 -> <<"c", "?", " ">>
    [] OTHER     -> <<"d", "-", "1">>

\* Difficulty levels of the catalogue, by position: 0, 1, 2, 0, 1, 2, ...
LevelOf(p) == p % 3

\* A cover URL that no upload of this program produced, and one it did.
GenericURL == <<"https://example.com/", "cover.png">>
EarlierUploadURL == PublicURL(RemotePath(<<"earlier.png">>))

Kinds == {"fresh", "generic", "done", "noprompt", "emptydone"}
BaseKinds == {"fresh", "done"}
\* The kinds of record whose image file may be there from an earlier
\* invocation (the prompt may have been removed since).
KindsWithFile == {"fresh", "noprompt"}

\* One Story Record (a JSON object) of each kind.
StoryOfKind(p, kind) ==
  LET core == [id |-> p, title |-> TitleOf(p), difficultyLevel |-> LevelOf(p)]
      prompted == Put(core, "imagePrompt", "a castle")
  IN  CASE kind = "fresh"     ->
             IF p % 2 = 0 THEN prompted ELSE Put(prompted, "coverImageURL", <<>>)
        [] kind = "generic"   ->
             Put(Put(prompted, "coverImageURL", GenericURL), "updatedAt", <<0, "Z">>)
        [] kind = "done"      ->
             Put(Put(prompted, "coverImageURL", EarlierUploadURL), "updatedAt", <<0, "Z">>)
        [] kind = "noprompt"  -> core
        [] OTHER              ->
             Put(Put(Put(core, "imagePrompt", ""), "coverImageURL", EarlierUploadURL),
                 "updatedAt", <<0, "Z">>)

\* A catalogue of n records of one kind, the record at position 1 excepted.
MakeDataset(n, base, odd) ==
  [p \in 0..(n - 1) |-> StoryOfKind(p, IF p = 1 THEN odd ELSE base)]

\* The command lines: args as argparse leaves them (level None is <<>>).
Args(test, level, all, start, count) ==
  [test |-> test, level |-> level, all |-> all, start |-> start, count |-> count]

\* --start and --count when given; '--level 0' runs the default window.
Windows == {<<1, 2>>, <<-1, 2>>, <<-3, 2>>}

CommandLines ==
  {Args(TRUE, <<>>, FALSE, DEFAULT_START, DEFAULT_COUNT),
   Args(TRUE, <<1>>, TRUE, DEFAULT_START, DEFAULT_COUNT),
   Args(FALSE, <<0>>, FALSE, DEFAULT_START, DEFAULT_COUNT),
   Args(FALSE, <<1>>, FALSE, DEFAULT_START, DEFAULT_COUNT),
   Args(FALSE, <<2>>, TRUE, 1, 1),
   Args(FALSE, <<>>, TRUE, DEFAULT_START, DEFAULT_COUNT)}
  \cup {Args(FALSE, <<>>, FALSE, w[1], w[2]) : w \in Windows}

\* What the user may type at the confirmation prompt.
ConfirmInputs == {"yes", "no", "", "YES"}

\* ----------------------------------------------------------------- state
VARIABLES
  \* the environment and the stores
  api_key,        \* OPENAI_API_KEY is set, in the environment of the invocations
  args,           \* the command line of the invocations
  stories_json,   \* the content of STORIES_JSON_PATH
  json_truncated, \* STORIES_JSON_PATH holds 0 bytes: opened for writing, not written
  images_dir,     \* IMAGES_DIR exists
  image_files,    \* the files in IMAGES_DIR
  now,            \* the clock
  \* the process
  pc, exit_status, firebase_ready,
  stories,        \* stories_data['stories'] in memory
  indices, i, image_url, success_count, fail_count, estimated_cost,
  \* what this invocation has done so far
  at_start,       \* the stores when the invocation began
  loaded,         \* the dataset as loaded
  gen_calls,      \* story_index of every images.generate call
  upload_calls,   \* story_index of every upload_from_filename call
  file_writes,    \* local file names written
  persist_log,    \* success_count at every save_stories_json call
  proc_log,       \* story_index and result of every finished process_story call
  \* across invocations
  runs, faults,
  last_done,      \* what the previous invocation left, if it reached the end
  upload_failures, \* story_index, invocation and local path of every failed upload
  images_saved    \* story_index of every image generated and saved, all invocations

env_vars == <<api_key, args, stories_json, json_truncated, images_dir, image_files, now>>
proc_vars == <<pc, exit_status, firebase_ready, stories, indices, i, image_url,
               success_count, fail_count, estimated_cost>>
log_vars == <<at_start, loaded, gen_calls, upload_calls, file_writes, persist_log, proc_log>>
hist_vars == <<runs, faults, last_done, upload_failures, images_saved>>
vars == <<env_vars, proc_vars, log_vars, hist_vars>>

\* The positions of the program between two operations.
Running == {"main", "init", "load", "mkdir", "select", "confirm", "loop", "process",
            "generate", "write", "upload", "record", "checkpoint", "checkpoint_dump",
            "next",
            "final", "final_dump", "summary"}
Ended == {"idle", "returned", "cancelled", "error", "killed", "done"}

Init ==
  /\ api_key \in BOOLEAN
  /\ args \in CommandLines
  /\ \E n \in 0..MaxStories, base \in BaseKinds, odd \in Kinds :
       /\ base = "fresh" => n <= MaxFresh
       /\ stories_json = MakeDataset(n, base, odd)
       /\ \/ image_files = {} /\ images_dir = FALSE
          \/ /\ 1 < n /\ odd \in KindsWithFile
             /\ image_files = {LocalFilename(1, TitleOf(1))}
             /\ images_dir = TRUE
  /\ json_truncated = FALSE
  /\ now = 1
  /\ pc = "idle" /\ exit_status = 0 /\ firebase_ready = FALSE
  /\ stories = <<>> /\ indices = <<>> /\ i = 0 /\ image_url = None
  /\ success_count = 0 /\ fail_count = 0 /\ estimated_cost = 0
  /\ at_start = [json |-> stories_json, dir |-> images_dir, files |-> image_files]
  /\ loaded = <<>>
  /\ gen_calls = <<>> /\ upload_calls = <<>> /\ file_writes = {}
  /\ persist_log = <<>> /\ proc_log = <<>>
  /\ runs = 0 /\ faults = 0
  /\ last_done = <<>> /\ upload_failures = {} /\ images_saved = <<>>

\* ------------------------------------------------------------- selection
\* [i for i, s in enumerate(stories) if s['difficultyLevel'] == level]
RECURSIVE IndicesOfLevel(_, _, _)
IndicesOfLevel(ss, level, from) ==
  IF from >= Cardinality(DOMAIN ss) THEN <<>>
  ELSE (IF ss[from]["difficultyLevel"] = level THEN <<from>> ELSE <<>>)
         \o IndicesOfLevel(ss, level, from + 1)

\* 'elif args.level:' is the truthiness of an Optional[int].
LevelGiven(a) == a.level # <<>> /\ a.level[1] # 0

\* Lines 217-235: the mode that applies and the indices it selects.
Mode(a) ==
  IF a.test THEN "test"
  ELSE IF LevelGiven(a) THEN "level"
  ELSE IF a.all THEN "all"
  ELSE "window"

\* A window that is not cut at the end of the dataset.
SelectionIgnoresLength(a, ss) ==
  LET n == Cardinality(DOMAIN ss)
  IN  CASE Mode(a) = "test"  -> <<0>>
        [] Mode(a) = "level" -> IndicesOfLevel(ss, a.level[1], 0)
        [] Mode(a) = "all"   -> Range(0, n)
        [] OTHER             -> Range(a.start, a.start + a.count)

Selection(a, ss) ==
  LET n == Cardinality(DOMAIN ss)
  IN  CASE Mode(a) = "test"  -> <<0>>
        [] Mode(a) = "level" -> IndicesOfLevel(ss, a.level[1], 0)
        [] Mode(a) = "all"   -> Range(0, n)
        [] OTHER             -> Range(a.start, Min(a.start + a.count, n))

\* ------------------------------------------------------------ the dataset
\* update_stories_json: the two assignments to the record at story_index.
UpdateStoriesJson(ss, story_index, url, t) ==
  LET p == Pos(story_index, Cardinality(DOMAIN ss))
  IN  [ss EXCEPT ![p] = Put(Put(@, "coverImageURL", url), "updatedAt", <<t, "Z">>)]

\* A checkpoint condition with the interval off by one.
CheckpointDueEverySixth(count) == count % (SAVE_EVERY + 1) = 0

\* 'if success_count % 5 == 0' after a success.
CheckpointDue(count) == count % SAVE_EVERY = 0

\* The record and the local path of the story being processed.
StoryIndex == indices[i + 1]
Story == stories[Pos(StoryIndex, Cardinality(DOMAIN stories))]
LocalPath == LocalFilename(StoryIndex, Story["title"])

\* 'if not prompt' for prompt = story.get('imagePrompt', '').
NoPrompt(story) == Get(story, "imagePrompt", "") = ""

\* ---------------------------------------------------------------- actions
\* The script is invoked: a new process, in the environment and with the
\* command line of the invocations before it.
StartRun ==
  /\ pc \in Ended
  /\ runs < MaxRuns
  /\ runs' = runs + 1
  /\ now' = now + 1
  /\ pc' = "main" /\ exit_status' = 0 /\ firebase_ready' = FALSE
  /\ stories' = <<>> /\ indices' = <<>> /\ i' = 0 /\ image_url' = None
  /\ success_count' = 0 /\ fail_count' = 0 /\ estimated_cost' = 0
  /\ at_start' = [json |-> stories_json, dir |-> images_dir, files |-> image_files]
  /\ loaded' = <<>>
  /\ gen_calls' = <<>> /\ upload_calls' = <<>> /\ file_writes' = {}
  /\ persist_log' = <<>> /\ proc_log' = <<>>
  /\ last_done' = IF pc = "done"
                    THEN <<[data |-> stories_json, fail_count |-> fail_count]>>
                    ELSE <<>>
  /\ UNCHANGED <<api_key, args, stories_json, json_truncated, images_dir, image_files,
                 faults, upload_failures, images_saved>>

\* Lines 192-196: without the key main prints the advice and returns.
CheckKey ==
  /\ pc = "main"
  /\ IF api_key
       THEN pc' = "init" /\ exit_status' = exit_status
       ELSE pc' = "returned" /\ exit_status' = 0
  /\ UNCHANGED <<env_vars, firebase_ready, stories, indices, i, image_url,
                 success_count, fail_count, estimated_cost, log_vars, hist_vars>>

\* Lines 198-203: initialize_firebase, then initialize_openai, which exits
\* with status 1 without the key.
InitClients ==
  /\ pc = "init"
  /\ firebase_ready' = TRUE
  /\ IF api_key
       THEN pc' = "load" /\ exit_status' = exit_status
       ELSE pc' = "error" /\ exit_status' = 1
  /\ UNCHANGED <<env_vars, stories, indices, i, image_url, success_count, fail_count,
                 estimated_cost, log_vars, hist_vars>>

\* Lines 205-211: json.load of the dataset file; a file of 0 bytes raises
\* JSONDecodeError, which ends the process with status 1.
LoadStories ==
  /\ pc = "load"
  /\ IF json_truncated
       THEN /\ pc' = "error" /\ exit_status' = 1
            /\ UNCHANGED <<stories, loaded>>
       ELSE /\ stories' = stories_json
            /\ loaded' = stories_json
            /\ pc' = "mkdir" /\ exit_status' = exit_status
  /\ UNCHANGED <<env_vars, firebase_ready, indices, i, image_url,
                 success_count, fail_count, estimated_cost, at_start, gen_calls,
                 upload_calls, file_writes, persist_log, proc_log, hist_vars>>

\* Line 214: os.makedirs(IMAGES_DIR, exist_ok=True).
MakeImagesDir ==
  /\ pc = "mkdir"
  /\ images_dir' = TRUE
  /\ pc' = "select"
  /\ UNCHANGED <<api_key, args, stories_json, json_truncated, image_files, now,
                 exit_status, firebase_ready, stories, indices, i, image_url,
                 success_count, fail_count, estimated_cost, log_vars, hist_vars>>

\* Lines 216-235, up to the prompt of the full mode.
SelectIndices ==
  /\ pc = "select"
  /\ indices' = Selection(args, stories)
  /\ pc' = IF Mode(args) = "all" THEN "confirm" ELSE "loop"
  /\ UNCHANGED <<env_vars, exit_status, firebase_ready, stories, i, image_url,
                 success_count, fail_count, estimated_cost, log_vars, hist_vars>>

\* Lines 228-231: input() and the comparison with 'yes'.
Confirm ==
  /\ pc = "confirm"
  /\ \E confirm \in ConfirmInputs :
       IF confirm # "yes"
         THEN pc' = "cancelled" /\ exit_status' = 0
         ELSE pc' = "loop" /\ exit_status' = exit_status
  /\ UNCHANGED <<env_vars, firebase_ready, stories, indices, i, image_url,
                 success_count, fail_count, estimated_cost, log_vars, hist_vars>>

\* Lines 241-242: the next index of the selection and the lookup of its
\* record, an IndexError when the index is no index of the list.
LoopHead ==
  /\ pc = "loop"
  /\ IF i < Len(indices)
       THEN IF ValidIndex(StoryIndex, Cardinality(DOMAIN stories))
              THEN pc' = "process" /\ exit_status' = exit_status
              ELSE pc' = "error" /\ exit_status' = 1
       ELSE pc' = "final" /\ exit_status' = exit_status
  /\ UNCHANGED <<env_vars, firebase_ready, stories, indices, i, image_url,
                 success_count, fail_count, estimated_cost, log_vars, hist_vars>>

\* A processor that does not look for the local file.
ProcessStoryRegenerates ==
  /\ pc = "process"
  /\ IF NoPrompt(Story)
       THEN image_url' = None /\ pc' = "record"
       ELSE IF AlreadyHasFirebaseImage(Story)
         THEN image_url' = Story["coverImageURL"] /\ pc' = "record"
         ELSE image_url' = image_url /\ pc' = "generate"
  /\ UNCHANGED <<env_vars, exit_status, firebase_ready, stories, indices, i,
                 success_count, fail_count, estimated_cost, log_vars, hist_vars>>

\* A processor that looks at the cover URL before it looks at the prompt.
ProcessStoryChecksUrlFirst ==
  /\ pc = "process"
  /\ IF AlreadyHasFirebaseImage(Story)
       THEN image_url' = Story["coverImageURL"] /\ pc' = "record"
       ELSE IF NoPrompt(Story)
         THEN image_url' = None /\ pc' = "record"
         ELSE IF LocalPath \in image_files
           THEN image_url' = image_url /\ pc' = "upload"
           ELSE image_url' = image_url /\ pc' = "generate"
  /\ UNCHANGED <<env_vars, exit_status, firebase_ready, stories, indices, i,
                 success_count, fail_count, estimated_cost, log_vars, hist_vars>>

\* process_story, lines 128-153: what is to be done for the story.
ProcessStory ==
  /\ pc = "process"
  /\ IF NoPrompt(Story)
       THEN image_url' = None /\ pc' = "record"
       ELSE IF AlreadyHasFirebaseImage(Story)
         THEN image_url' = Story["coverImageURL"] /\ pc' = "record"
         ELSE IF LocalPath \in image_files
           THEN image_url' = image_url /\ pc' = "upload"
           ELSE image_url' = image_url /\ pc' = "generate"
  /\ UNCHANGED <<env_vars, exit_status, firebase_ready, stories, indices, i,
                 success_count, fail_count, estimated_cost, log_vars, hist_vars>>

\* A processor that goes on to the upload after a failed generation.
GenerateImageUploadsAfterFailure ==
  /\ pc = "generate"
  /\ gen_calls' = Append(gen_calls, StoryIndex)
  /\ \/ /\ image_files' = image_files \cup {LocalPath}
        /\ file_writes' = file_writes \cup {LocalPath}
        /\ pc' = "write"
        /\ UNCHANGED <<image_url, faults>>
     \/ /\ faults < MaxFaults
        /\ faults' = faults + 1
        /\ image_url' = None
        /\ pc' = "upload"
        /\ UNCHANGED <<image_files, file_writes>>
  /\ UNCHANGED <<api_key, args, stories_json, json_truncated, images_dir, now,
                 exit_status, firebase_ready, stories, indices, i, success_count,
                 fail_count, estimated_cost, at_start, loaded, upload_calls, persist_log,
                 proc_log, runs, last_done, upload_failures, images_saved>>

\* generate_image, lines 79-98: the provider call, the download and the
\* open() that creates the local file; an exception of one of them makes
\* process_story return None, and no file is there.
GenerateImage ==
  /\ pc = "generate"
  /\ gen_calls' = Append(gen_calls, StoryIndex)
  /\ \/ /\ image_files' = image_files \cup {LocalPath}
        /\ file_writes' = file_writes \cup {LocalPath}
        /\ pc' = "write"
        /\ UNCHANGED <<image_url, faults>>
     \/ /\ faults < MaxFaults
        /\ faults' = faults + 1
        /\ image_url' = None
        /\ pc' = "record"
        /\ UNCHANGED <<image_files, file_writes>>
  /\ UNCHANGED <<api_key, args, stories_json, json_truncated, images_dir, now,
                 exit_status, firebase_ready, stories, indices, i, success_count,
                 fail_count, estimated_cost, at_start, loaded, upload_calls, persist_log,
                 proc_log, runs, last_done, upload_failures, images_saved>>

\* generate_image, lines 99-106: f.write into the file that open() created;
\* the image is saved, or the exception of f.write makes process_story
\* return None and the file stays as it is.
WriteImage ==
  /\ pc = "write"
  /\ \/ /\ images_saved' = Append(images_saved, StoryIndex)
        /\ pc' = "upload"
        /\ UNCHANGED <<image_url, faults>>
     \/ /\ faults < MaxFaults
        /\ faults' = faults + 1
        /\ image_url' = None
        /\ pc' = "record"
        /\ UNCHANGED images_saved
  /\ UNCHANGED <<env_vars, exit_status, firebase_ready, stories, indices, i,
                 success_count, fail_count, estimated_cost, log_vars, runs, last_done,
                 upload_failures>>

\* upload_to_firebase: the public URL, or None on any exception.
UploadToFirebase ==
  /\ pc = "upload"
  /\ upload_calls' = Append(upload_calls, StoryIndex)
  /\ \/ /\ image_url' = PublicURL(RemotePath(LocalPath))
        /\ UNCHANGED <<faults, upload_failures>>
     \/ /\ faults < MaxFaults
        /\ faults' = faults + 1
        /\ image_url' = None
        /\ upload_failures' = upload_failures
             \cup {[index |-> StoryIndex, run |-> runs, path |-> LocalPath]}
  /\ pc' = "record"
  /\ UNCHANGED <<env_vars, exit_status, firebase_ready, stories, indices, i,
                 success_count, fail_count, estimated_cost, at_start, loaded, gen_calls,
                 file_writes, persist_log, proc_log, runs, last_done, images_saved>>

\* A loop that gives up at the first failed story.
RecordStopsAtFailure ==
  /\ pc = "record"
  /\ proc_log' = Append(proc_log, [index |-> StoryIndex, url |-> image_url])
  /\ IF Truthy(image_url)
       THEN /\ stories' = UpdateStoriesJson(stories, StoryIndex, image_url, now)
            /\ success_count' = success_count + 1
            /\ fail_count' = fail_count
            /\ pc' = "checkpoint"
       ELSE /\ fail_count' = fail_count + 1
            /\ UNCHANGED <<stories, success_count>>
            /\ pc' = "final"
  /\ UNCHANGED <<env_vars, exit_status, firebase_ready, indices, i, image_url,
                 estimated_cost, at_start, loaded, gen_calls, upload_calls,
                 file_writes, persist_log, hist_vars>>

\* Lines 246-256: the result of process_story is recorded and counted.
Record ==
  /\ pc = "record"
  /\ proc_log' = Append(proc_log, [index |-> StoryIndex, url |-> image_url])
  /\ IF Truthy(image_url)
       THEN /\ stories' = UpdateStoriesJson(stories, StoryIndex, image_url, now)
            /\ success_count' = success_count + 1
            /\ fail_count' = fail_count
            /\ pc' = "checkpoint"
       ELSE /\ fail_count' = fail_count + 1
            /\ UNCHANGED <<stories, success_count>>
            /\ pc' = "next"
  /\ UNCHANGED <<env_vars, exit_status, firebase_ready, indices, i, image_url,
                 estimated_cost, at_start, loaded, gen_calls, upload_calls,
                 file_writes, persist_log, hist_vars>>

\* Lines 252-254 and 177: after every 5th success save_stories_json is
\* called; its open(STORIES_JSON_PATH, 'w') empties the file.
Checkpoint ==
  /\ pc = "checkpoint"
  /\ IF CheckpointDue(success_count)
       THEN /\ stories_json' = <<>> /\ json_truncated' = TRUE
            /\ pc' = "checkpoint_dump"
       ELSE /\ UNCHANGED <<stories_json, json_truncated>>
            /\ pc' = "next"
  /\ UNCHANGED <<api_key, args, images_dir, image_files, now, exit_status,
                 firebase_ready, stories, indices, i, image_url, success_count,
                 fail_count, estimated_cost, log_vars, hist_vars>>

\* Lines 258-260 and the loop's step: on to the next index.
NextStory ==
  /\ pc = "next"
  /\ i' = i + 1
  /\ image_url' = None
  /\ pc' = "loop"
  /\ UNCHANGED <<env_vars, exit_status, firebase_ready, stories, indices,
                 success_count, fail_count, estimated_cost, log_vars, hist_vars>>

\* A run that ends without the final save.
FinalSaveSkipped ==
  /\ pc = "final"
  /\ pc' = "summary"
  /\ UNCHANGED <<env_vars, exit_status, firebase_ready, stories, indices, i, image_url,
                 success_count, fail_count, estimated_cost, log_vars, hist_vars>>

\* Lines 263 and 177: the final save_stories_json is called; its
\* open(STORIES_JSON_PATH, 'w') empties the file.
FinalSave ==
  /\ pc = "final"
  /\ stories_json' = <<>> /\ json_truncated' = TRUE
  /\ pc' = "final_dump"
  /\ UNCHANGED <<api_key, args, images_dir, image_files, now, exit_status,
                 firebase_ready, stories, indices, i, image_url, success_count,
                 fail_count, estimated_cost, log_vars, hist_vars>>

\* Lines 178-179: json.dump writes the dataset in memory to the opened file,
\* and save_stories_json returns to the loop or to the end of main.
JsonDump ==
  /\ pc \in {"checkpoint_dump", "final_dump"}
  /\ stories_json' = stories /\ json_truncated' = FALSE
  /\ persist_log' = Append(persist_log, success_count)
  /\ pc' = IF pc = "checkpoint_dump" THEN "next" ELSE "summary"
  /\ UNCHANGED <<api_key, args, images_dir, image_files, now, exit_status,
                 firebase_ready, stories, indices, i, image_url, success_count,
                 fail_count, estimated_cost, at_start, loaded, gen_calls, upload_calls,
                 file_writes, proc_log, hist_vars>>

\* A summary that prices every processed story, failed ones included.
SummaryCountsEveryStory ==
  /\ pc = "summary"
  /\ estimated_cost' = (success_count + fail_count) * UNIT_PRICE_CENTS
  /\ pc' = "done"
  /\ UNCHANGED <<env_vars, exit_status, firebase_ready, stories, indices, i, image_url,
                 success_count, fail_count, log_vars, hist_vars>>

\* Lines 265-273: the summary, with the estimated cost (in cents).
Summary ==
  /\ pc = "summary"
  /\ estimated_cost' = success_count * UNIT_PRICE_CENTS
  /\ pc' = "done"
  /\ UNCHANGED <<env_vars, exit_status, firebase_ready, stories, indices, i, image_url,
                 success_count, fail_count, log_vars, hist_vars>>

\* The process is terminated from outside, between two operations (between
\* the open and the write of an image or of the dataset included): its
\* memory is gone, the stores stay as they are.  A termination counts as
\* one of the behaviour's external mishaps.
Kill ==
  /\ pc \in Running
  /\ faults < MaxFaults
  /\ faults' = faults + 1
  /\ pc' = "killed"
  /\ exit_status' = 137
  /\ firebase_ready' = FALSE
  /\ stories' = <<>> /\ indices' = <<>> /\ i' = 0 /\ image_url' = None
  /\ success_count' = 0 /\ fail_count' = 0 /\ estimated_cost' = 0
  /\ loaded' = <<>>
  /\ gen_calls' = <<>> /\ upload_calls' = <<>> /\ file_writes' = {}
  /\ persist_log' = <<>> /\ proc_log' = <<>>
  /\ at_start' = [json |-> stories_json, dir |-> images_dir, files |-> image_files]
  /\ UNCHANGED <<env_vars, runs, last_done, upload_failures, images_saved>>

Next ==
  \/ StartRun \/ CheckKey \/ InitClients \/ LoadStories \/ MakeImagesDir
  \/ SelectIndices \/ Confirm \/ LoopHead \/ ProcessStory \/ GenerateImage \/ WriteImage
  \/ UploadToFirebase \/ Record \/ Checkpoint \/ NextStory \/ FinalSave
  \/ JsonDump \/ Summary \/ Kill

Spec == Init /\ [][Next]_vars

\* ================================================================ claims
InLoop == {"loop", "process", "generate", "write", "upload", "record", "checkpoint",
           "checkpoint_dump", "next"}
AfterLoop == {"final", "final_dump", "summary", "done"}
BeforeLoop == {"main", "init", "load", "mkdir", "select", "confirm"}

Elems(q) == {q[k] : k \in DOMAIN q}
MaxOf(S) == CHOOSE x \in S : \A y \in S : y <= x
CoverURL(story) == Get(story, "coverImageURL", <<>>)

\* ------------------------------------------------------------------- C1
\* C1: a second run of the batch over the same selection, right after a
\* first run that reached its end (here: with no failed story, the case
\* most favourable to the claim), leaves the dataset exactly as the first
\* run left it, updatedAt of the complete records included, and makes no
\* generation call and no upload call.
C1_SecondRunChangesNothing ==
  (pc = "done" /\ last_done # <<>> /\ last_done[1].fail_count = 0)
    => /\ stories_json = last_done[1].data
       /\ gen_calls = <<>>
       /\ upload_calls = <<>>

\* ------------------------------------------------------------------- C2
\* The persists a loop with `count` successes has made: after the 5th, the
\* 10th, ... success.
InLoopPersists(count) == [j \in 1..(count \div 5) |-> 5 * j]

\* C2: the dataset is persisted right after the 5th, 10th, ... success of
\* the run and nowhere else in the loop, and once more after the loop: a
\* finished run with k successes has made floor(k/5) + 1 persists, whatever
\* failures lie between the successes.
C2_CheckpointCadence ==
  /\ pc \in BeforeLoop => persist_log = <<>>
  /\ pc \in (InLoop \ {"checkpoint", "checkpoint_dump"}) \cup {"final", "final_dump"}
       => persist_log = InLoopPersists(success_count)
  /\ pc \in {"checkpoint", "checkpoint_dump"}
       => persist_log = InLoopPersists(success_count - 1)
  /\ pc = "checkpoint_dump" => success_count % 5 = 0
  /\ (pc = "next" /\ Truthy(image_url) /\ success_count % 5 = 0)
       => stories_json = stories
  /\ pc \in {"summary", "done"}
       => /\ persist_log = Append(InLoopPersists(success_count), success_count)
          /\ Len(persist_log) = (success_count \div 5) + 1

\* A finished run of 10 successes with a failure among them: persists after
\* the 5th and the 10th success and the final one.
C2_Witness ==
  /\ pc = "done" /\ success_count = 10 /\ fail_count >= 1
  /\ persist_log = <<5, 10, 10>>
  /\ \E k \in 1..(Len(proc_log) - 1) : ~Truthy(proc_log[k].url)

\* ------------------------------------------------------------------- C3
\* The process_story calls of this run that returned a URL for the record
\* at position p.
UrlResultsFor(p) ==
  {k \in DOMAIN proc_log :
     /\ Pos(proc_log[k].index, Cardinality(DOMAIN stories)) = p
     /\ Truthy(proc_log[k].url)}

\* The coverImageURL of the record at position p in the persisted dataset,
\* none when the file holds no such record.
PersistedCoverURL(p) ==
  IF p \in DOMAIN stories_json THEN CoverURL(stories_json[p]) ELSE <<>>

\* The records whose coverImageURL was assigned in this run and is not the
\* persisted one.
Unpersisted ==
  {p \in DOMAIN stories :
     UrlResultsFor(p) # {} /\ CoverURL(stories[p]) # PersistedCoverURL(p)}

\* C3: at every point of a run at most 4 records have a coverImageURL
\* assigned in memory that the persisted dataset lacks.
C3_AtMostFourUnpersisted == Cardinality(Unpersisted) <= 4

\* ------------------------------------------------------------------- C4
\* C4: when the loop has finished and the final save is made, the persisted
\* dataset is the dataset in memory; a record carries a coverImageURL of
\* this run (the URL process_story returned, stamped with the time of
\* the run) exactly when process_story returned a URL for it, and is
\* otherwise as it was loaded.
C4_FinalDurability ==
  pc \in {"summary", "done"} =>
    /\ stories_json = stories
    /\ DOMAIN stories = DOMAIN loaded
    /\ \A p \in DOMAIN stories :
         IF UrlResultsFor(p) # {}
           THEN /\ CoverURL(stories[p]) = proc_log[MaxOf(UrlResultsFor(p))].url
                /\ stories[p]["updatedAt"] = <<now, "Z">>
           ELSE /\ stories[p] = loaded[p]
                /\ Get(stories[p], "updatedAt", <<>>) # <<now, "Z">>

\* Three stories, the second without a prompt: two successes, one failure,
\* and the persisted dataset has a cover URL at positions 0 and 2 only.
C4_Witness ==
  /\ pc = "done" /\ indices = <<0, 1, 2>> /\ DOMAIN stories_json = 0..2
  /\ success_count = 2 /\ fail_count = 1
  /\ gen_calls = <<0, 2>>
  /\ HasMarker(CoverURL(stories_json[0])) /\ HasMarker(CoverURL(stories_json[2]))
  /\ "coverImageURL" \notin DOMAIN stories_json[1]

\* ------------------------------------------------------------------- C5
\* C5: the finished process_story calls of a run are the indices of the
\* selection, once each and in order, each counted as a success or as a
\* failure; a failed story does not end the run (a run ends early only
\* before the loop, the load of an unreadable dataset file included, or at
\* an index that is no index of the dataset), and
\* when the loop has finished every index of the selection has been
\* processed and success_count + fail_count is the size of the selection.
C5_PartialFailureTolerance ==
  /\ pc \in InLoop \cup AfterLoop =>
       /\ [k \in 1..Len(proc_log) |-> proc_log[k].index]
            = SubSeq(indices, 1, Len(proc_log))
       /\ success_count + fail_count = Len(proc_log)
       /\ fail_count = Cardinality({k \in DOMAIN proc_log : ~Truthy(proc_log[k].url)})
       /\ Len(proc_log)
            = (IF pc \in {"checkpoint", "checkpoint_dump", "next"} THEN i + 1 ELSE i)
  /\ pc \in AfterLoop => Len(proc_log) = Len(indices)
  /\ pc \in {"returned", "cancelled"} => proc_log = <<>>
  /\ pc = "error" =>
       \/ ~api_key
       \/ json_truncated /\ loaded = <<>> /\ proc_log = <<>>
       \/ /\ i < Len(indices)
          /\ ~ValidIndex(indices[i + 1], Cardinality(DOMAIN stories))
          /\ Len(proc_log) = i

\* A finished run in which a story failed at the provider or at the upload
\* and a later story succeeded.
C5_Witness ==
  /\ pc = "done"
  /\ \E j, k \in DOMAIN proc_log :
       /\ j < k
       /\ proc_log[j].url = None
       /\ proc_log[j].index \in Elems(gen_calls) \cup Elems(upload_calls)
       /\ Truthy(proc_log[k].url)

\* ------------------------------------------------------------------- C6
\* The record has no cover URL (the key is absent or its value is empty).
Unset(story) == CoverURL(story) = <<>>

\* process_story has finished for the story at hand, whose local file was
\* there before this run wrote any and whose cover URL is unset.
ResumablePending ==
  /\ pc = "record"
  /\ LocalPath \in image_files \ file_writes
  /\ Unset(Story)

\* C6 (as stated): if the local image file of index i exists and the
\* coverImageURL of i is unset, a run that processes i makes no generation
\* call for i and performs the upload for i.
C6_ResumeUploadsAlways ==
  ResumablePending =>
    /\ StoryIndex \notin Elems(gen_calls)
    /\ StoryIndex \in Elems(upload_calls)

\* C6 (amended): if the local image file of index i exists, the
\* coverImageURL of i is unset and the imagePrompt of i is not empty, a run
\* that processes i makes no generation call for i and performs the upload
\* for i.
C6_ResumeUploadsWithPrompt ==
  (ResumablePending /\ ~NoPrompt(Story)) =>
    /\ StoryIndex \notin Elems(gen_calls)
    /\ StoryIndex \in Elems(upload_calls)

\* A story with a prompt, no cover URL and a local file left by an earlier
\* run has been uploaded without a generation call.
C6_Witness ==
  /\ ResumablePending /\ ~NoPrompt(Story)
  /\ StoryIndex \in Elems(upload_calls)
  /\ StoryIndex \notin Elems(gen_calls)
  /\ Truthy(image_url)

\* ------------------------------------------------------------------- C7
\* The upload of story_index idx failed in an earlier invocation.
EarlierUploadFailure(idx) ==
  \E f \in upload_failures : f.index = idx /\ f.run < runs

\* The result of the story at hand is not yet in proc_log.
AtHand(idx) ==
  pc \in {"process", "generate", "write", "upload", "record"} /\ StoryIndex = idx

\* C7: a story whose image was generated and whose upload failed is counted
\* as a failure of that run, its coverImageURL stays as loaded and its local
\* file stays; a later run that processes it makes no generation call for
\* it and calls the upload.
C7_UploadFailureRecovery ==
  /\ \A f \in upload_failures :
       LET n == Cardinality(DOMAIN stories)
       IN  /\ f.path \in image_files
           /\ (f.run = runs /\ pc \in InLoop \cup AfterLoop /\ ~AtHand(f.index)) =>
                /\ \E k \in DOMAIN proc_log :
                     proc_log[k].index = f.index /\ proc_log[k].url = None
                /\ fail_count >= 1
                /\ CoverURL(stories[Pos(f.index, n)]) = CoverURL(loaded[Pos(f.index, n)])
  /\ pc = "generate" => ~EarlierUploadFailure(StoryIndex)
  /\ (pc = "record" /\ EarlierUploadFailure(StoryIndex)) =>
       /\ StoryIndex \in Elems(upload_calls)
       /\ StoryIndex \notin Elems(gen_calls)

\* ------------------------------------------------------------------- C8
\* C8: for a record with no prompt (absent or empty) process_story returns
\* None and there is no generation call, no upload call and no local file
\* written for it, whatever its cover URL and whether or not its local file
\* exists.
C8_SkipOnMissingPrompt ==
  /\ pc \in {"generate", "write", "upload"} => ~NoPrompt(Story)
  /\ (pc = "record" /\ NoPrompt(Story)) => image_url = None
  /\ pc \in InLoop \cup AfterLoop =>
       \A k \in DOMAIN proc_log :
         LET idx == proc_log[k].index
             story == stories[Pos(idx, Cardinality(DOMAIN stories))]
         IN  NoPrompt(story) =>
               /\ proc_log[k].url = None
               /\ idx \notin Elems(gen_calls)
               /\ idx \notin Elems(upload_calls)
               /\ LocalFilename(idx, story["title"]) \notin file_writes

\* A record with an empty prompt and a cover URL of the storage bucket has
\* been processed: the result is None.
C8_Witness ==
  /\ pc = "next"
  /\ NoPrompt(Story) /\ AlreadyHasFirebaseImage(Story)
  /\ proc_log[Len(proc_log)] = [index |-> StoryIndex, url |-> None]

\* ------------------------------------------------------------------- C9
\* C9: throughout a run the dataset keeps its length and the order of its
\* records, a record whose index is not in the selection is as it was
\* loaded, and a selected record differs from the loaded one in
\* coverImageURL and updatedAt at most.
C9_Frame ==
  pc \in InLoop \cup AfterLoop =>
    /\ DOMAIN stories = DOMAIN loaded
    /\ \A p \in DOMAIN stories :
         /\ p \notin Elems(indices) => stories[p] = loaded[p]
         /\ DOMAIN stories[p] \subseteq DOMAIN loaded[p] \cup {"coverImageURL", "updatedAt"}
         /\ \A key \in DOMAIN loaded[p] \ {"coverImageURL", "updatedAt"} :
              stories[p][key] = loaded[p][key]

\* ------------------------------------------------------------------ C10
\* C10: when the full mode is selected and the confirmation is declined, the
\* run ends having made no generation call, no upload call and no persist,
\* and having left the dataset file and the local file system, the image
\* directory included, as they were.
C10_DeclinedLeavesNoTrace ==
  pc = "cancelled" =>
    /\ gen_calls = <<>> /\ upload_calls = <<>> /\ persist_log = <<>>
    /\ stories_json = at_start.json
    /\ image_files = at_start.files
    /\ images_dir = at_start.dir

\* ------------------------------------------------------------------ C11
\* C11: a run started without the credential variable ends before any I/O
\* (no storage client, no dataset load, no directory creation, no
\* processing) and with a non-zero exit status.
C11_MissingCredentialAborts ==
  (runs >= 1 /\ ~api_key /\ pc \in {"returned", "cancelled", "error", "done"}) =>
    /\ firebase_ready = FALSE
    /\ loaded = <<>>
    /\ images_dir = at_start.dir /\ image_files = at_start.files
    /\ stories_json = at_start.json
    /\ proc_log = <<>> /\ gen_calls = <<>> /\ upload_calls = <<>>
    /\ exit_status # 0

\* ------------------------------------------------------------------ C12
\* The indices are in strictly ascending order.
Ascending(q) == \A j, k \in DOMAIN q : j < k => q[j] < q[k]

\* C12: in the windowed mode with start S and count C over N records the
\* selection is the integers S .. min(S + C, N) - 1 in ascending order, and
\* it is empty when S >= N.
C12_WindowedSelection ==
  (pc \in InLoop \cup AfterLoop /\ Mode(args) = "window") =>
    LET N == Cardinality(DOMAIN stories)
        S == args.start
        C == args.count
    IN  /\ Elems(indices) = S..((IF S + C < N THEN S + C ELSE N) - 1)
        /\ Ascending(indices)
        /\ Len(indices) = Cardinality(Elems(indices))
        /\ S >= N => indices = <<>>

\* A window that reaches beyond the end of the dataset has been cut at the
\* end and is not empty.
C12_Witness ==
  /\ pc = "loop" /\ Mode(args) = "window"
  /\ args.start >= 0
  /\ args.start + args.count > Cardinality(DOMAIN stories)
  /\ indices # <<>>
  /\ indices[Len(indices)] = Cardinality(DOMAIN stories) - 1

\* ------------------------------------------------------------------ C13
\* C13: when --level L is given without --test, for every integer L, 0
\* included, the selection is the indices of the records whose
\* difficultyLevel is L, in ascending order, and neither the window nor the
\* full mode (with its confirmation) is used.
C13_LevelFilterSelection ==
  (~args.test /\ args.level # <<>>) =>
    /\ pc \notin {"confirm", "cancelled"}
    /\ pc \in InLoop \cup AfterLoop =>
         /\ Elems(indices)
              = {p \in DOMAIN stories : stories[p]["difficultyLevel"] = args.level[1]}
         /\ Ascending(indices)
         /\ Len(indices) = Cardinality(Elems(indices))

\* ------------------------------------------------------------------ C14
\* C14: the estimated cost of a finished run is success_count times the
\* unit price of 4 cents, success_count being the number of process_story
\* calls of the run that returned a non-empty URL.
C14_CostEstimate ==
  pc = "done" =>
    /\ estimated_cost = success_count * UNIT_PRICE_CENTS
    /\ estimated_cost = 4 * Cardinality({k \in DOMAIN proc_log : Truthy(proc_log[k].url)})

\* A finished run with successes and a failure: the failure is not priced.
C14_Witness ==
  /\ pc = "done" /\ success_count >= 2 /\ fail_count >= 1
  /\ estimated_cost = 4 * success_count

\* ------------------------------------------------------------------ C15
\* C15: in one run the coverImageURL/updatedAt fields of a record are
\* written at most once (update_stories_json is called for the results of
\* process_story that are a URL), in every mode and for all parameters.
C15_AtMostOneWritePerRecord ==
  \A p \in DOMAIN stories : Cardinality(UrlResultsFor(p)) <= 1

\* ------------------------------------------------------------------ C16
\* No value occurs twice in the sequence.
NoRepeat(q) == \A j, k \in DOMAIN q : j # k => q[j] # q[k]

\* The generation call made for idx in this run failed.
GenerationFailed(idx) == idx \in Elems(gen_calls) /\ idx \notin Elems(images_saved)

\* What holds of the calls of process_story whatever the record: at most
\* one generation call and one upload call for an index, a generation call
\* only with a prompt, without the storage marker and without a local file,
\* an upload call only while the local file exists and never after a failed
\* generation.
CallDiscipline ==
  /\ NoRepeat(gen_calls) /\ NoRepeat(upload_calls)
  /\ pc \in InLoop \cup AfterLoop =>
       /\ Elems(gen_calls) \cup Elems(upload_calls)
            \subseteq Elems(SubSeq(indices, 1, Min(i + 1, Len(indices))))
       /\ \A idx \in Elems(upload_calls) : ~GenerationFailed(idx)
  /\ pc = "generate" =>
       /\ ~NoPrompt(Story) /\ ~AlreadyHasFirebaseImage(Story)
       /\ LocalPath \notin image_files
       /\ StoryIndex \notin Elems(gen_calls)
  /\ pc = "upload" =>
       /\ LocalPath \in image_files
       /\ StoryIndex \notin Elems(upload_calls)
  /\ (pc = "record" /\ GenerationFailed(StoryIndex)) =>
       /\ image_url = None
       /\ StoryIndex \notin Elems(upload_calls)

\* C16 (as stated): the call discipline, and a record whose coverImageURL
\* contains the storage marker causes neither call and has its URL returned
\* unchanged.
C16_CallDisciplineAnyMarked ==
  /\ CallDiscipline
  /\ (pc = "record" /\ AlreadyHasFirebaseImage(Story)) =>
       /\ image_url = Story["coverImageURL"]
       /\ StoryIndex \notin Elems(gen_calls) \cup Elems(upload_calls)

\* C16 (amended): the call discipline, and a record with a non-empty prompt
\* whose coverImageURL contains the storage marker causes neither call and
\* has its URL returned unchanged; a marked record without a prompt causes
\* neither call as well.
C16_CallDisciplinePromptedMarked ==
  /\ CallDiscipline
  /\ (pc = "record" /\ AlreadyHasFirebaseImage(Story)) =>
       /\ StoryIndex \notin Elems(gen_calls) \cup Elems(upload_calls)
       /\ ~NoPrompt(Story) => image_url = Story["coverImageURL"]

\* A run in which a generation failed (no upload followed) and a marked
\* record with a prompt had its URL returned without any call.
C16_Witness ==
  /\ pc = "record"
  /\ AlreadyHasFirebaseImage(Story) /\ ~NoPrompt(Story)
  /\ image_url = Story["coverImageURL"]
  /\ \E idx \in Elems(gen_calls) : GenerationFailed(idx) /\ idx \notin Elems(upload_calls)

\* ------------------------------------------------------------------ C17
\* C17: every index of the selection is a position of the dataset,
\* 0 <= index < N, in every mode and for all parameters, and the loop never
\* fails at the lookup of a record.
C17_SelectionWithinDataset ==
  /\ pc \in InLoop \cup AfterLoop =>
       \A k \in DOMAIN indices :
         0 <= indices[k] /\ indices[k] < Cardinality(DOMAIN stories)
  /\ ~(pc = "error" /\ i < Len(indices))

\* ------------------------------------------------------------------ C18
\* C18: over all runs, terminated ones included, an image is generated and
\* saved at most once for an index; the saved file stays (its name is read
\* off the dataset file while that is readable), and a generation
\* call is made for an index only if its local file does not exist, its
\* record lacks the storage marker and no image was saved for it before.
C18_GeneratedAtMostOnce ==
  /\ NoRepeat(images_saved)
  /\ ~json_truncated =>
       \A idx \in Elems(images_saved) :
         LET n == Cardinality(DOMAIN stories_json)
         IN  /\ ValidIndex(idx, n)
             /\ LocalFilename(idx, stories_json[Pos(idx, n)]["title"]) \in image_files
  /\ pc = "generate" =>
       /\ StoryIndex \notin Elems(images_saved)
       /\ LocalPath \notin image_files
       /\ ~AlreadyHasFirebaseImage(Story)

\* A later run processes an index whose image an earlier run had saved when
\* it was terminated (no upload of it had failed): the upload is called,
\* the provider is not.
C18_Witness ==
  /\ runs >= 2 /\ pc = "record"
  /\ StoryIndex \in Elems(images_saved)
  /\ ~EarlierUploadFailure(StoryIndex)
  /\ ~AlreadyHasFirebaseImage(Story)
  /\ StoryIndex \in Elems(upload_calls)
  /\ gen_calls = <<>>
  /\ Truthy(image_url)

====
